---- MODULE Spec2Model ----
\* Model of the Hundred_Steppers driver (src/Hundred_Steppers.cpp): the
\* position counters (step_table), the single-motor and multi-motor moves,
\* home, the resize of the counter storage, and the timing-gated frame
\* transmission step().
\*
\* The driver is single threaded.  A call is modelled from its entry to its
\* return: pc is the position of the one thread of control.
\*   idle  - no call in progress
\*   one   - at the while test of setStepperStep(uint16_t, int)
\*   many  - at the while test of setStepperStep(int8_t[])
\*   home  - at the while test of home()
\*   gate  - in step(), spinning in the speed-control loop
\*   shift - in step(), past the gate, about to drive the lines
\*   done  - the call has returned; its result is observable
\* and, where one frame is followed pin by pin (PinSpec):
\*   load, bit, data, clkhigh - the loops of step() and fastShiftOut()
\*   latchend - between the two latch writes that end step()
\*
\* Spec and FairSpec follow the motion calls and the resize; ConfigSpec the
\* constructors with enable/disable/clear and the speed setting; ChainSpec
\* the motion calls against a chain of ChainN register stages; PinSpec one
\* frame on the latch, clock and data lines.
EXTENDS Integers, Sequences, FiniteSets, TLC

\* ---------------------------------------------------------------- bounds
MaxN == 2          \* largest motor count tried
MaxTravel == 3     \* steps the calls of one run command in total
MaxTicks == 1      \* the elapsed-time observer saturates after this many ticks
StepsPerRev == 200 \* constructor argument nSteps
LineNum == 4       \* constructor argument step_line_num

\* ------------------------------------------------------ program constants
Word == 65536               \* 2^16: uint16_t, and half of an unsigned long
DefaultRPM == 60            \* setSpeedRevPerMin(60) in the constructor

VARIABLES
    nSteppers,       \* this->nSteppers
    step_table,      \* this->step_table, a function 0..nSteppers-1 -> Int
    step_delay,      \* this->step_delay
    last_step_time,  \* this->last_step_time
    now,             \* the value micros() returns
    pc,              \* position of the thread of control
    op,              \* the call in progress (or just returned)
    n,               \* argument n of setStepperStep(n, steps) / setStepperNum(n)
    steps_to_move,   \* local of setStepperStep(n, steps)
    step_list,       \* the caller's array handed to setStepperStep(int8_t[])
    length,          \* local of setStepperStep(int8_t[])
    zero_num,        \* local of setStepperStep(int8_t[]) and home()
    max_changed,     \* local of setStepperStep(int8_t[]) and home()
    stepArg,         \* argument of step()
    ret,             \* value returned by a bool call
    shifted,         \* indices of step_table read by the last frame, in order
    \* observers of one call
    pre,             \* step_table at the call
    preN,            \* nSteppers at the call
    preList,         \* step_list at the call
    preLast,         \* last_step_time at the call
    preSteps,        \* steps_to_move at the call
    passes,          \* passes of the while loop made by the call
    frames,          \* frames transmitted by the call
    \* observers of the clock
    sinceLast,       \* ticks since last_step_time was set (saturating)
    gateElapsed,     \* sinceLast when the frame being sent passed the gate
    \* what bounds a run
    commanded,       \* steps commanded by the moves so far
    \* configuration and the auxiliary lines
    nSteps,          \* this->nSteps
    hasAux,          \* TRUE when the constructor with clearPin/enablePin ran
    enablePin,       \* this->enablePin
    clearPin,        \* this->clearPin
    enableLine,      \* level of the line wired as enable ("none": never driven)
    clearLine,       \* level of the line wired as clear
    writes,          \* digitalWrite calls of the call in progress: << pin, level >>
    \* the serial lines and the shift registers
    step_line_num,   \* this->step_line_num
    latch,           \* level of latchPin
    clock,           \* level of the clock pin
    data,            \* level of the data pin
    cmd,             \* local cmd of step(), argument value of fastShiftOut
    bitI,            \* loop variable i of fastShiftOut
    patI,            \* loop variable i of step()
    edges,           \* data levels at the rising clock edges of the pattern
    latchRises,      \* rising edges of the latch line in the frame
    stages,          \* shift stage of each motor, stage 0 first
    latched,         \* storage (output) register of each motor
    cmdIdx           \* indices into cmd_list the last frame used, in order

vars == << nSteppers, step_table, step_delay, last_step_time, now, pc, op, n,
           steps_to_move, step_list, length, zero_num, max_changed, stepArg,
           ret, shifted, pre, preN, preList, preLast, preSteps, passes,
           frames, sinceLast, gateElapsed, commanded, nSteps, hasAux,
           enablePin, clearPin, enableLine, clearLine, writes, step_line_num,
           latch, clock, data, cmd, bitI, patI, edges, latchRises, stages,
           latched, cmdIdx >>

progVars == << nSteppers, step_table, step_delay, last_step_time >>
callVars == << n, steps_to_move, step_list, length, zero_num, max_changed >>
obsVars  == << pre, preN, preList, preLast, preSteps, passes, frames >>
clockVars == << now, sinceLast, gateElapsed >>
cfgVars == << nSteps, hasAux, enablePin, clearPin, enableLine, clearLine >>
pinVars == << step_line_num, latch, clock, data, cmd, bitI, patI, edges,
              latchRises >>
chainVars == << stages, latched, cmdIdx >>

\* ---------------------------------------------------------------- helpers
Min(a, b) == IF a < b THEN a ELSE b
Abs(x) == IF x < 0 THEN -x ELSE x
SetMax(S) == CHOOSE x \in S : \A y \in S : y <= x

Deltas == (-MaxTravel)..MaxTravel

\* steps a list of deltas t commands
RECURSIVE TravelUpTo(_, _)
TravelUpTo(t, k) == IF k = 0 THEN 0 ELSE Abs(t[k - 1]) + TravelUpTo(t, k - 1)
Travel(t) == TravelUpTo(t, Cardinality(DOMAIN t))

\* calloc(n, sizeof(stepType)): n zeroed counters
calloc(k) == [i \in 0..(k - 1) |-> 0]

\* arrays of the caller, 0-based, of length 0..MaxN
arrayLen(a) == Cardinality(DOMAIN a)
DeltaLists == UNION { [0..(k - 1) -> Deltas] : k \in 0..MaxN }

\* variant: the second division rounds to nearest instead of truncating
RevPerMinDelay_Rounded(steps, rpm) ==
    (((60 * 1000 * 1000) \div steps) + (rpm \div 2)) \div rpm

\* step_delay = 60L * 1000L * 1000L / nSteps / n
RevPerMinDelay(steps, rpm) == ((60 * 1000 * 1000) \div steps) \div rpm

\* unsigned long (32 bits) as << high word, low word >>
U32(x) == << (x \div Word) % Word, x % Word >>

\* a + b and a - b in unsigned 32-bit arithmetic
Add32(a, b) ==
    LET lo == a[2] + b[2]
    IN  << (a[1] + b[1] + (lo \div Word)) % Word, lo % Word >>

Sub32(a, b) ==
    LET lo == a[2] - b[2]
    IN  << (a[1] - b[1] - (IF lo < 0 THEN 1 ELSE 0)) % Word, lo % Word >>

\* a < b, unsigned
Less32(a, b) == a[1] < b[1] \/ (a[1] = b[1] /\ a[2] < b[2])

\* the clock is observed every 2^31 microseconds
Tick32 == << 32768, 0 >>

\* (micros() - last_step_time)
Elapsed(t, last) == Sub32(t, last)

\* ------------------------------------------------- the code's computations
\* variant: the range test lets the index nSteppers through
InRange_OffByOne(idx, cnt) == idx <= cnt

\* if (n < nSteppers)
InRange(idx, cnt) == idx < cnt

\* variant: the counter is incremented whatever the sign of the steps
StepOneTable_AlwaysUp(t, idx, s) == [t EXCEPT ![idx] = @ + 1]

\* one turn of the while loop of setStepperStep(n, steps): the counter
StepOneTable(t, idx, s) ==
    [t EXCEPT ![idx] = IF s > 0 THEN @ + 1 ELSE @ - 1]

\* one turn of the while loop of setStepperStep(n, steps): steps_to_move
StepOneLeft(s) == IF s > 0 THEN s - 1 ELSE s + 1

\* variant: a pass moves a motor by its whole remaining delta
Sgn_Whole(x) == x

\* -1, 0 or +1: the direction a remaining delta (or a counter) asks for
Sgn(x) == IF x > 0 THEN 1 ELSE IF x < 0 THEN -1 ELSE 0

\* the for loop of setStepperStep(step_list): the counters after the pass
ManyTable(t, list, len) ==
    [i \in DOMAIN t |-> IF i < len THEN t[i] + Sgn(list[i]) ELSE t[i]]

\* variant: the pass counts down a copy, the list itself is left alone
ManyList_Untouched(list, len) == list

\* the for loop of setStepperStep(step_list): step_list after the pass
ManyList(list, len) ==
    [i \in DOMAIN list |-> IF i < len THEN list[i] - Sgn(list[i]) ELSE list[i]]

\* variant: home() only steps the counters that are above zero
HomeTable_PositiveOnly(t, cnt) ==
    [i \in DOMAIN t |-> IF i < cnt /\ t[i] > 0 THEN t[i] - 1 ELSE t[i]]

\* the for loop of home(): the counters after the pass
HomeTable(t, cnt) ==
    [i \in DOMAIN t |-> IF i < cnt THEN t[i] - Sgn(t[i]) ELSE t[i]]

\* variant: only entry 0 is tested for zero
ZeroCount_FirstOnly(list, len) == IF len > 0 /\ list[0] = 0 THEN 1 ELSE 0

\* entries the for loop finds at zero: each one does zero_num++
ZeroCount(list, len) == Cardinality({i \in 0..(len - 1) : list[i] = 0})

\* zero_num after a pass; zero_num is NOT reset before the pass
ZeroNumAfter(z, list, len) == (z + ZeroCount(list, len)) % Word

\* max_changed = 0 before the pass, then the last index that moved
MaxChanged(list, len) ==
    SetMax({0} \cup {i \in 0..(len - 1) : list[i] # 0})

\* variant: no speed control, the loop is left at once
GateOpen_NoWait(t, last, delay) == TRUE

\* while ((micros() - last_step_time) < step_delay) {;}  -- the exit test
GateOpen(t, last, delay) == ~Less32(Elapsed(t, last), U32(delay))

\* variant: a length of 0 is not replaced by nSteppers
FrameLength_KeepZero(len, cnt) == IF len > cnt THEN cnt ELSE len

\* if (length == 0 || length > nSteppers) length = nSteppers;
FrameLength(len, cnt) == IF len = 0 \/ len > cnt THEN cnt ELSE len

\* for (i = 0; i <= length; i++) ... step_table[length - i]: the indices
\* length, length-1, ..., 0.  When length is nSteppers the first read is one
\* element past the end of the storage calloc returned.
FrameIndices(len) == [i \in 1..(len + 1) |-> len - (i - 1)]

\* the driver's cycle length and its table of output patterns (one coil
\* energised per phase)
driver_mode == 4
cmd_list == [k \in 0..(driver_mode - 1) |-> 2 ^ k]

\* C's a % b for b > 0: the quotient truncates toward zero, so the
\* remainder takes the sign of a
CRem(a, b) == IF a >= 0 THEN a % b ELSE -((-a) % b)

\* the low bit_count bits of a byte: all that fastShiftOut puts on the wire
LowBits(value, bit_count) == value % (2 ^ bit_count)

\* cmd_list[step_table[idx] % driver_mode] as fastShiftOut sends it.  A read
\* of step_table past its last element, or of cmd_list outside the table,
\* yields whatever the memory holds.
PatternsFor(t, cnt, idx, bit_count) ==
    IF idx < cnt /\ CRem(t[idx], driver_mode) \in DOMAIN cmd_list
    THEN { LowBits(cmd_list[CRem(t[idx], driver_mode)], bit_count) }
    ELSE 0..(2 ^ bit_count - 1)

\* one pattern clocked in: it enters stage 0, every stage hands its old
\* content to the next one, the last stage's content is lost
ShiftIn(st, p) ==
    [i \in DOMAIN st |-> IF i = 0 THEN p ELSE st[i - 1]]

RECURSIVE ShiftAll(_, _, _)
ShiftAll(st, pats, k) ==
    IF k > Len(pats) THEN st ELSE ShiftAll(ShiftIn(st, pats[k]), pats, k + 1)

\* the index into cmd_list computed for each motor of a frame
TableIndices(t, cnt, sh) ==
    [k \in {j \in DOMAIN sh : sh[j] < cnt} |-> CRem(t[sh[k]], driver_mode)]

\* uint16_t getStepperNum(void)
getStepperNum == nSteppers

\* the loop a call returns to after step()
LoopOf(o) == CASE o = "move_one" -> "one"
               [] o = "move_many" -> "many"
               [] OTHER -> "home"

\* ------------------------------------------------------------------- Init
\* The state after the constructor: nSteppers zeroed counters, the default
\* speed, last_step_time = micros().
Init ==
    /\ nSteppers \in 0..MaxN
    /\ step_table = calloc(nSteppers)
    /\ step_delay = RevPerMinDelay(StepsPerRev, DefaultRPM)
    /\ last_step_time = U32(0)
    /\ now = U32(0)
    /\ pc = "idle"
    /\ op = "none"
    /\ n = 0
    /\ steps_to_move = 0
    /\ step_list = calloc(0)
    /\ length = 0
    /\ zero_num = 0
    /\ max_changed = 0
    /\ stepArg = 0
    /\ ret = FALSE
    /\ shifted = << >>
    /\ pre = calloc(0)
    /\ preN = 0
    /\ preList = calloc(0)
    /\ preLast = U32(0)
    /\ preSteps = 0
    /\ passes = 0
    /\ frames = 0
    /\ sinceLast = 0
    /\ gateElapsed = 0
    /\ commanded = 0
    /\ nSteps = StepsPerRev
    /\ hasAux = FALSE
    /\ enablePin = 0
    /\ clearPin = 0
    /\ enableLine = "none"
    /\ clearLine = "none"
    /\ writes = << >>
    /\ step_line_num = LineNum
    /\ latch = "LOW"
    /\ clock = "LOW"
    /\ data = "LOW"
    /\ cmd = 0
    /\ bitI = 0
    /\ patI = 0
    /\ edges = << >>
    /\ latchRises = 0
    /\ stages = << >>
    /\ latched = << >>
    /\ cmdIdx = << >>

\* what every call records on entry
Enter(o, list, s) ==
    /\ op' = o
    /\ preList' = list
    /\ preSteps' = s
    /\ pre' = step_table
    /\ preN' = nSteppers
    /\ preLast' = last_step_time
    /\ passes' = 0
    /\ frames' = 0

\* ------------------------------------------- setStepperStep(n, steps_to_move)
CallMoveOne(idx, s) ==
    /\ pc = "idle"
    /\ commanded + Abs(s) <= MaxTravel
    /\ commanded' = commanded + Abs(s)
    /\ Enter("move_one", calloc(0), s)
    /\ n' = idx
    /\ steps_to_move' = s
    /\ pc' = "one"
    /\ UNCHANGED << progVars, clockVars, step_list, length, zero_num,
                    max_changed, stepArg, ret, shifted, cfgVars, pinVars,
                    chainVars, writes >>

\* the while test and, when it holds, the loop body up to the call of step(n)
MoveOneLoop ==
    /\ pc = "one"
    /\ IF InRange(n, nSteppers) /\ steps_to_move # 0
       THEN /\ step_table' = StepOneTable(step_table, n, steps_to_move)
            /\ steps_to_move' = StepOneLeft(steps_to_move)
            /\ passes' = passes + 1
            /\ stepArg' = n
            /\ pc' = "gate"
       ELSE /\ pc' = "done"
            /\ UNCHANGED << step_table, steps_to_move, passes, stepArg >>
    /\ UNCHANGED << nSteppers, step_delay, last_step_time, clockVars, op, n,
                    step_list, length, zero_num, max_changed, ret, shifted,
                    pre, preN, preList, preLast, preSteps, frames,
                    commanded, cfgVars, pinVars,
                    chainVars, writes >>

\* ------------------------------------------------ setStepperStep(step_list)
CallMoveMany(list) ==
    /\ pc = "idle"
    /\ commanded + Travel(list) <= MaxTravel
    /\ commanded' = commanded + Travel(list)
    /\ Enter("move_many", list, 0)
    /\ step_list' = list
    /\ zero_num' = 0
    /\ max_changed' = 0
    /\ length' = Min(arrayLen(list), nSteppers)
    /\ pc' = "many"
    /\ UNCHANGED << progVars, clockVars, n, steps_to_move, stepArg, ret,
                    shifted, cfgVars, pinVars,
                    chainVars, writes >>

\* the while test and, when it holds, one pass of the for loop up to the
\* call of step(max_changed)
MoveManyLoop ==
    /\ pc = "many"
    /\ IF zero_num < length
       THEN /\ step_table' = ManyTable(step_table, step_list, length)
            /\ step_list' = ManyList(step_list, length)
            /\ zero_num' = ZeroNumAfter(zero_num, step_list, length)
            /\ max_changed' = MaxChanged(step_list, length)
            /\ passes' = passes + 1
            /\ stepArg' = max_changed'
            /\ pc' = "gate"
       ELSE /\ pc' = "done"
            /\ UNCHANGED << step_table, step_list, zero_num, max_changed,
                            passes, stepArg >>
    /\ UNCHANGED << nSteppers, step_delay, last_step_time, clockVars, op, n,
                    steps_to_move, length, ret, shifted, pre, preN, preList,
                    preLast, preSteps, frames,
                    commanded, cfgVars, pinVars,
                    chainVars, writes >>

\* ---------------------------------------------------------------- home()
CallHome ==
    /\ pc = "idle"
    /\ Enter("home", calloc(0), 0)
    /\ zero_num' = 0
    /\ max_changed' = 0
    /\ pc' = "home"
    /\ UNCHANGED << progVars, clockVars, n, steps_to_move, step_list, length,
                    stepArg, ret, shifted,
                    commanded, cfgVars, pinVars,
                    chainVars, writes >>

HomeLoop ==
    /\ pc = "home"
    /\ IF zero_num < nSteppers
       THEN /\ step_table' = HomeTable(step_table, nSteppers)
            /\ zero_num' = ZeroNumAfter(zero_num, step_table, nSteppers)
            /\ max_changed' = MaxChanged(step_table, nSteppers)
            /\ passes' = passes + 1
            /\ stepArg' = max_changed'
            /\ pc' = "gate"
       ELSE /\ pc' = "done"
            /\ UNCHANGED << step_table, zero_num, max_changed, passes,
                            stepArg >>
    /\ UNCHANGED << nSteppers, step_delay, last_step_time, clockVars, op, n,
                    steps_to_move, step_list, length, ret, shifted, pre, preN,
                    preList, preLast, preSteps, frames,
                    commanded, cfgVars, pinVars,
                    chainVars, writes >>

\* ------------------------------------------------------- setStepperNum(n)
\* variant: realloc without the memset, the old counters survive
ResizeOk_Realloc(k) ==
    /\ step_table' = [i \in 0..(k - 1) |->
                         IF i \in DOMAIN step_table THEN step_table[i] ELSE 0]
    /\ nSteppers' = k
    /\ ret' = TRUE

\* calloc succeeded: the old storage is freed, the new one is all zero
ResizeOk(k) ==
    /\ step_table' = calloc(k)
    /\ nSteppers' = k
    /\ ret' = TRUE

\* variant: the storage is freed when the allocation fails
ResizeFail_FreesTable ==
    /\ step_table' = calloc(0)
    /\ UNCHANGED nSteppers
    /\ ret' = FALSE

\* calloc returned NULL: nothing is touched
ResizeFail ==
    /\ UNCHANGED << step_table, nSteppers >>
    /\ ret' = FALSE

setStepperNum(k, allocated) ==
    /\ pc = "idle"
    /\ Enter("resize", calloc(0), 0)
    /\ n' = k
    /\ IF allocated THEN ResizeOk(k) ELSE ResizeFail
    /\ pc' = "done"
    /\ UNCHANGED << step_delay, last_step_time, clockVars, steps_to_move,
                    step_list, length, zero_num, max_changed, stepArg,
                    shifted,
                    commanded, cfgVars, pinVars,
                    chainVars, writes >>

\* ------------------------------------------------------------ step(length)
\* time passes while step() spins in its speed-control loop
Tick ==
    /\ pc = "gate"
    /\ now' = Add32(now, Tick32)
    /\ sinceLast' = Min(sinceLast + 1, MaxTicks)
    /\ UNCHANGED << progVars, pc, op, callVars, stepArg, ret, shifted,
                    obsVars, gateElapsed,
                    commanded, cfgVars, pinVars,
                    chainVars, writes >>

\* the speed-control loop exits; last_step_time = micros()
GatePass ==
    /\ pc = "gate"
    /\ GateOpen(now, last_step_time, step_delay)
    /\ last_step_time' = now
    /\ gateElapsed' = sinceLast
    /\ sinceLast' = 0
    /\ pc' = "shift"
    /\ UNCHANGED << nSteppers, step_table, step_delay, now, op, callVars,
                    stepArg, ret, shifted, obsVars,
                    commanded, cfgVars, pinVars,
                    chainVars, writes >>

\* latch low, one pattern per index of FrameIndices, latch high, latch low
Shift ==
    /\ pc = "shift"
    /\ shifted' = FrameIndices(FrameLength(stepArg, nSteppers))
    /\ cmdIdx' = TableIndices(step_table, nSteppers, shifted')
    /\ frames' = frames + 1
    /\ gateElapsed' = 0
    /\ pc' = LoopOf(op)
    /\ UNCHANGED << progVars, now, sinceLast, op, callVars, stepArg, ret, pre,
                    preN, preList, preLast, preSteps, passes,
                    commanded, cfgVars, pinVars,
                    stages, latched, writes >>

\* ------------------------------------------------ the call returns to loop()
Return ==
    /\ pc = "done"
    /\ pc' = "idle"
    /\ op' = "none"
    /\ n' = 0
    /\ steps_to_move' = 0
    /\ step_list' = calloc(0)
    /\ length' = 0
    /\ zero_num' = 0
    /\ max_changed' = 0
    /\ stepArg' = 0
    /\ ret' = FALSE
    /\ shifted' = << >>
    /\ writes' = << >>
    /\ pre' = calloc(0)
    /\ preN' = 0
    /\ preList' = calloc(0)
    /\ preLast' = U32(0)
    /\ preSteps' = 0
    /\ passes' = 0
    /\ frames' = 0
    /\ cmdIdx' = << >>
    /\ UNCHANGED << progVars, clockVars,
                    commanded, cfgVars, pinVars,
                    stages, latched >>

\* ------------------------------------- enable, disable, clear, speed
\* if (enablePin) / if (clearPin): pin number 0 stands for "no such line"
PinSet(pin) == pin # 0

\* bool enableSteppers(void)
enableSteppers ==
    /\ pc = "idle"
    /\ Enter("enable", calloc(0), 0)
    /\ IF PinSet(enablePin)
       THEN /\ writes' = << << enablePin, "LOW" >> >>
            /\ enableLine' = "LOW"
            /\ ret' = TRUE
       ELSE /\ writes' = << >>
            /\ ret' = FALSE
            /\ UNCHANGED enableLine
    /\ pc' = "done"
    /\ UNCHANGED << progVars, clockVars, callVars, stepArg, shifted, commanded,
                    nSteps, hasAux, enablePin, clearPin, clearLine, pinVars,
                    chainVars >>

\* bool disableSteppers(void)
disableSteppers ==
    /\ pc = "idle"
    /\ Enter("disable", calloc(0), 0)
    /\ IF PinSet(enablePin)
       THEN /\ writes' = << << enablePin, "HIGH" >> >>
            /\ enableLine' = "HIGH"
            /\ ret' = TRUE
       ELSE /\ writes' = << >>
            /\ ret' = FALSE
            /\ UNCHANGED enableLine
    /\ pc' = "done"
    /\ UNCHANGED << progVars, clockVars, callVars, stepArg, shifted, commanded,
                    nSteps, hasAux, enablePin, clearPin, clearLine, pinVars,
                    chainVars >>

\* bool clearSteppers(void): low, delay(10), high
clearSteppers ==
    /\ pc = "idle"
    /\ Enter("clear", calloc(0), 0)
    /\ IF PinSet(clearPin)
       THEN /\ writes' = << << clearPin, "LOW" >>, << clearPin, "HIGH" >> >>
            /\ clearLine' = "HIGH"
            /\ ret' = TRUE
       ELSE /\ writes' = << >>
            /\ ret' = FALSE
            /\ UNCHANGED clearLine
    /\ pc' = "done"
    /\ UNCHANGED << progVars, clockVars, callVars, stepArg, shifted, commanded,
                    nSteps, hasAux, enablePin, clearPin, enableLine, pinVars,
                    chainVars >>

\* void setSpeedRevPerMin(uint16_t n), n > 0
setSpeedRevPerMin(rpm) ==
    /\ pc = "idle"
    /\ Enter("speed", calloc(0), 0)
    /\ n' = rpm
    /\ step_delay' = RevPerMinDelay(nSteps, rpm)
    /\ pc' = "done"
    /\ UNCHANGED << nSteppers, step_table, last_step_time, clockVars,
                    steps_to_move, step_list, length, zero_num, max_changed,
                    stepArg, ret, shifted, commanded, cfgVars, writes, pinVars,
                    chainVars >>

\* arguments tried: nSteps, << clearPin, enablePin >>, speeds
StepChoices == {48, StepsPerRev, 400}
AuxPins == { << 5, 6 >>, << 0, 6 >>, << 5, 0 >> }
Speeds == {1, 7, DefaultRPM, 120, 333}

\* no call in progress, nothing observed yet
CallAtRest ==
    /\ n = 0
    /\ steps_to_move = 0
    /\ step_list = calloc(0)
    /\ length = 0
    /\ zero_num = 0
    /\ max_changed = 0
    /\ ret = FALSE
    /\ shifted = << >>
    /\ pre = calloc(0)
    /\ preN = 0
    /\ preList = calloc(0)
    /\ preLast = U32(0)
    /\ preSteps = 0
    /\ passes = 0
    /\ frames = 0
    /\ commanded = 0
    /\ writes = << >>

\* last_step_time = micros() in the constructor
ClockAtStart ==
    /\ last_step_time = U32(0)
    /\ now = U32(0)
    /\ sinceLast = 0
    /\ gateElapsed = 0

\* the serial lines after the constructor: latch written LOW
PinsAtStart ==
    /\ latch = "LOW"
    /\ clock = "LOW"
    /\ data = "LOW"
    /\ cmd = 0
    /\ bitI = 0
    /\ patI = 0
    /\ edges = << >>
    /\ latchRises = 0

\* The state after either constructor, for the calls that configure the
\* driver: with clearPin/enablePin (clear written HIGH, enable written LOW)
\* or without (both pin numbers 0, neither line driven).
ConfigInit ==
    /\ nSteppers = 1
    /\ step_table = calloc(1)
    /\ nSteps \in StepChoices
    /\ step_delay = RevPerMinDelay(nSteps, DefaultRPM)
    /\ hasAux \in BOOLEAN
    /\ \E pins \in AuxPins :
           /\ clearPin = IF hasAux THEN pins[1] ELSE 0
           /\ enablePin = IF hasAux THEN pins[2] ELSE 0
    /\ clearLine = IF hasAux THEN "HIGH" ELSE "none"
    /\ enableLine = IF hasAux THEN "LOW" ELSE "none"
    /\ step_line_num = LineNum
    /\ pc = "idle"
    /\ op = "none"
    /\ stepArg = 0
    /\ CallAtRest
    /\ ClockAtStart
    /\ PinsAtStart
    /\ stages = << >>
    /\ latched = << >>
    /\ cmdIdx = << >>

ConfigNext ==
    \/ enableSteppers
    \/ disableSteppers
    \/ clearSteppers
    \/ \E rpm \in Speeds : setSpeedRevPerMin(rpm)
    \/ Return

ConfigSpec == ConfigInit /\ [][ConfigNext]_vars

\* ------------------------------------------- the chain of shift registers
\* step(length) against the chain: latch low, the patterns of FrameIndices
\* shifted in order, latch high (the outputs take the stages' content),
\* latch low
ShiftChain ==
    /\ pc = "shift"
    /\ shifted' = FrameIndices(FrameLength(stepArg, nSteppers))
    /\ cmdIdx' = TableIndices(step_table, nSteppers, shifted')
    /\ LET sent(k) == PatternsFor(step_table, nSteppers, shifted'[k],
                                  step_line_num)
           \* a pattern pushed out of the last stage before the latch
           \* plays no part, whatever was read for it
           kept(k) == k > Len(shifted') - nSteppers
           open == {k \in DOMAIN shifted' :
                        kept(k) /\ Cardinality(sent(k)) > 1}
       IN  \E read \in [open -> 0..(2 ^ step_line_num - 1)] :
               stages' = ShiftAll(stages,
                                  [k \in DOMAIN shifted' |->
                                      IF k \in open THEN read[k]
                                      ELSE CHOOSE v \in sent(k) : TRUE],
                                  1)
    /\ latched' = stages'
    /\ frames' = frames + 1
    /\ gateElapsed' = 0
    /\ pc' = LoopOf(op)
    /\ UNCHANGED << progVars, now, sinceLast, op, callVars, stepArg, ret, pre,
                    preN, preList, preLast, preSteps, passes,
                    commanded, cfgVars, pinVars, writes >>

\* motors on the chain
ChainN == 3

\* forward moves: the counters stay at or above 0 and every pattern sent
\* for a motor comes from inside cmd_list
UpDeltas == 0..MaxTravel
UpLists == UNION { [0..(k - 1) -> UpDeltas] : k \in 0..ChainN }

\* The driver constructed for ChainN motors, every register stage and
\* every output holding phase(0), the pattern of a motor at counter 0.
ChainInit ==
    /\ nSteppers = ChainN
    /\ step_table = calloc(nSteppers)
    /\ nSteps = StepsPerRev
    /\ step_delay = RevPerMinDelay(nSteps, DefaultRPM)
    /\ hasAux = FALSE
    /\ enablePin = 0
    /\ clearPin = 0
    /\ enableLine = "none"
    /\ clearLine = "none"
    /\ step_line_num = LineNum
    /\ pc = "idle"
    /\ op = "none"
    /\ stepArg = 0
    /\ CallAtRest
    /\ ClockAtStart
    /\ PinsAtStart
    /\ stages = [i \in 0..(nSteppers - 1) |-> LowBits(cmd_list[0], step_line_num)]
    /\ latched = stages
    /\ cmdIdx = << >>

ChainNext ==
    \/ \E idx \in 0..(ChainN - 1), s \in UpDeltas : CallMoveOne(idx, s)
    \/ MoveOneLoop
    \/ \E list \in UpLists : CallMoveMany(list)
    \/ MoveManyLoop
    \/ CallHome
    \/ HomeLoop
    \/ Tick
    \/ GatePass
    \/ ShiftChain
    \/ Return

ChainSpec == ChainInit /\ [][ChainNext]_vars

\* ------------------------------------------------ one frame, pin by pin
\* what a call of step() leaves alone once it is past the speed gate
frameRest == << progVars, clockVars, callVars, stepArg, ret, op, pre, preN,
                preList, preLast, preSteps, passes, commanded, cfgVars,
                chainVars, writes, step_line_num >>

\* value & (1 << i), as 0 or 1; the variant counts from the top bit
BitOf_MsbFirst(value, i) == (value \div (2 ^ (step_line_num - 1 - i))) % 2

BitOf(value, i) == (value \div (2 ^ i)) % 2

\* the levels of the two digitalWrite(latchPin, ...) that end step(); the
\* variant writes them in the opposite order
LatchPulse_Inverted == << "LOW", "HIGH" >>

LatchPulse == << "HIGH", "LOW" >>

\* digitalWrite(latchPin, LOW) before the loop
LatchLow ==
    /\ pc = "shift"
    /\ op = "step"
    /\ latch' = "LOW"
    /\ patI' = 0
    /\ pc' = "load"
    /\ UNCHANGED << frameRest, clock, data, cmd, bitI, edges, latchRises,
                    shifted, frames >>

\* i <= length holds: cmd = cmd_list[step_table[length - i] % driver_mode]
\* and fastShiftOut(cmd) is entered
LoadCmd ==
    /\ pc = "load"
    /\ patI <= FrameLength(stepArg, nSteppers)
    /\ cmd' \in PatternsFor(step_table, nSteppers,
                             FrameLength(stepArg, nSteppers) - patI,
                             step_line_num)
    /\ shifted' = Append(shifted, FrameLength(stepArg, nSteppers) - patI)
    /\ bitI' = 0
    /\ edges' = << >>
    /\ pc' = "bit"
    /\ UNCHANGED << frameRest, latch, clock, data, patI, latchRises, frames >>

\* i < step_line_num holds: *clockReg &= ~clockMask
ClockLow ==
    /\ pc = "bit"
    /\ bitI < step_line_num
    /\ clock' = "LOW"
    /\ pc' = "data"
    /\ UNCHANGED << frameRest, latch, data, cmd, bitI, patI, edges,
                    latchRises, shifted, frames >>

\* if (value & (1 << i)) *dataReg |= dataMask; else *dataReg &= ~dataMask
DataWrite ==
    /\ pc = "data"
    /\ data' = IF BitOf(cmd, bitI) = 1 THEN "HIGH" ELSE "LOW"
    /\ pc' = "clkhigh"
    /\ UNCHANGED << frameRest, latch, clock, cmd, bitI, patI, edges,
                    latchRises, shifted, frames >>

\* *clockReg |= clockMask: a rising edge, at which the registers sample the
\* data line; i++
ClockHigh ==
    /\ pc = "clkhigh"
    /\ clock' = "HIGH"
    /\ edges' = IF clock = "LOW" THEN Append(edges, data) ELSE edges
    /\ bitI' = bitI + 1
    /\ pc' = "bit"
    /\ UNCHANGED << frameRest, latch, data, cmd, patI, latchRises, shifted,
                    frames >>

\* i < step_line_num fails: fastShiftOut returns; i++ in step()
ShiftOutReturn ==
    /\ pc = "bit"
    /\ bitI >= step_line_num
    /\ patI' = patI + 1
    /\ pc' = "load"
    /\ UNCHANGED << frameRest, latch, clock, data, cmd, bitI, edges,
                    latchRises, shifted, frames >>

\* i <= length fails: digitalWrite(latchPin, HIGH)
LatchHigh ==
    /\ pc = "load"
    /\ patI > FrameLength(stepArg, nSteppers)
    /\ latch' = LatchPulse[1]
    /\ latchRises' = IF latch = "LOW" /\ latch' = "HIGH"
                     THEN latchRises + 1 ELSE latchRises
    /\ pc' = "latchend"
    /\ UNCHANGED << frameRest, clock, data, cmd, bitI, patI, edges, shifted,
                    frames >>

\* digitalWrite(latchPin, LOW); step() returns
LatchLowEnd ==
    /\ pc = "latchend"
    /\ latch' = LatchPulse[2]
    /\ latchRises' = IF latch = "LOW" /\ latch' = "HIGH"
                     THEN latchRises + 1 ELSE latchRises
    /\ frames' = frames + 1
    /\ pc' = "done"
    /\ UNCHANGED << frameRest, clock, data, cmd, bitI, patI, edges, shifted >>

\* step(stepArg) past its speed gate, for a driver of 1..MaxN motors whose
\* counters are anywhere in one cycle.  The latch line is low (the
\* constructor and every earlier frame leave it low); the clock line is low
\* after the constructor and high after a frame; the data line holds the
\* last bit sent.
PinInit ==
    /\ nSteppers \in 1..MaxN
    /\ step_table \in [0..(nSteppers - 1) -> 0..(driver_mode - 1)]
    /\ nSteps = StepsPerRev
    /\ step_delay = RevPerMinDelay(nSteps, DefaultRPM)
    /\ hasAux = FALSE
    /\ enablePin = 0
    /\ clearPin = 0
    /\ enableLine = "none"
    /\ clearLine = "none"
    /\ step_line_num = LineNum
    /\ pc = "shift"
    /\ op = "step"
    /\ CallAtRest
    /\ stepArg \in 0..MaxN
    /\ ClockAtStart
    /\ latch = "LOW"
    /\ clock \in {"LOW", "HIGH"}
    /\ data \in {"LOW", "HIGH"}
    /\ clock = "LOW" => data = "LOW"
    /\ cmd = 0
    /\ bitI = 0
    /\ patI = 0
    /\ edges = << >>
    /\ latchRises = 0
    /\ stages = << >>
    /\ latched = << >>
    /\ cmdIdx = << >>

PinNext ==
    \/ LatchLow
    \/ LoadCmd
    \/ ClockLow
    \/ DataWrite
    \/ ClockHigh
    \/ ShiftOutReturn
    \/ LatchHigh
    \/ LatchLowEnd

PinSpec == PinInit /\ [][PinNext]_vars

Next ==
    \/ \E idx \in 0..MaxN, s \in Deltas : CallMoveOne(idx, s)
    \/ MoveOneLoop
    \/ \E list \in DeltaLists : CallMoveMany(list)
    \/ MoveManyLoop
    \/ CallHome
    \/ HomeLoop
    \/ \E k \in 0..MaxN, allocated \in BOOLEAN : setStepperNum(k, allocated)
    \/ Tick
    \/ GatePass
    \/ Shift
    \/ Return

Spec == Init /\ [][Next]_vars

\* What the single thread of control guarantees: a call in progress keeps
\* running (its loops and the shift-out take their next step), micros() keeps
\* advancing while step() spins, and the spin loop, which re-reads micros()
\* far more often than the clock wraps, is left once the elapsed time has
\* reached step_delay.
FairSpec ==
    /\ Spec
    /\ WF_vars(MoveOneLoop)
    /\ WF_vars(MoveManyLoop)
    /\ WF_vars(HomeLoop)
    /\ WF_vars(Tick)
    /\ SF_vars(GatePass)
    /\ WF_vars(Shift)

\* ================================================================ properties
Returned(o) == pc = "done" /\ op = o
MaxAbs(f) == SetMax({0} \cup {Abs(f[i]) : i \in DOMAIN f})
InStep == pc \in {"gate", "shift"}

\* ticks * 2^31 microseconds >= delay microseconds
TicksCover(ticks, delay) == ticks * Tick32[1] >= (delay + Word - 1) \div Word

\* C1: when setStepperStep(step_list) returns, for a list D no longer than the
\* motor count, counter i is its value before the call plus D[i] for every
\* i < len(D), and every other counter is unchanged.
C1_MoveManyAddsDeltas ==
    (Returned("move_many") /\ arrayLen(preList) <= preN) =>
        \A i \in 0..(preN - 1) :
            step_table[i] =
                pre[i] + (IF i < arrayLen(preList) THEN preList[i] ELSE 0)

\* C2: when home() returns, every position counter is 0.
C2_HomeZeroesAll ==
    Returned("home") => \A i \in DOMAIN step_table : step_table[i] = 0

\* setStepperStep(i, S) with i < N keeps every other counter at its value
\* before the call, keeps counter i plus the steps still to move equal to the
\* value before the call plus S all through the loop, and returns with no
\* step left: counter i is then its value before the call plus S.
MoveOneAddsSteps ==
    (op = "move_one" /\ n < preN) =>
        /\ nSteppers = preN
        /\ \A j \in 0..(preN - 1) : j # n => step_table[j] = pre[j]
        /\ step_table[n] + steps_to_move = pre[n] + preSteps
        /\ Abs(steps_to_move) + passes = Abs(preSteps)
        /\ pc = "done" => steps_to_move = 0 /\ step_table[n] = pre[n] + preSteps

\* C3: setStepperStep(i, S) with i < N terminates, and when it returns
\* counter i is its value before the call plus S and every other counter is
\* as it was before the call.
C3_MoveOneTerminatesWithSteps ==
    /\ []MoveOneAddsSteps
    /\ (op = "move_one" /\ pc = "one") ~> (op = "move_one" /\ pc = "done")

C3_Witness ==
    /\ Returned("move_one")
    /\ n < preN
    /\ preN >= 2
    /\ preSteps <= -2
    /\ pre[n] > 0

C6_GateBeforeFrame ==
    pc = "shift" =>
        /\ TicksCover(gateElapsed, step_delay)
        /\ last_step_time = now

C6_Witness ==
    /\ pc = "shift"
    /\ frames >= 1
    /\ gateElapsed >= 1
    /\ sinceLast = 0

\* C7: a frame sent by step(a) reads one pattern per motor for the indices
\* a-1, a-2, ..., 0 in that order, an a of 0 or above the motor count being
\* replaced by the motor count first; it never reads more than nSteppers
\* patterns.
C7_FrameShape ==
    (frames >= 1 /\ pc \in {"one", "many", "home"}) =>
        LET a == IF stepArg = 0 \/ stepArg > nSteppers
                 THEN nSteppers ELSE stepArg
        IN  /\ shifted = [i \in 1..a |-> a - i]
            /\ Len(shifted) <= nSteppers

\* C8: setStepperStep(index, delta) with index >= N never enters its loop:
\* no counter changes, no frame is sent, last_step_time keeps its value.
C8_OutOfRangeNoOp ==
    (op = "move_one" /\ n >= preN) =>
        /\ pc \in {"one", "done"}
        /\ step_table = pre
        /\ nSteppers = preN
        /\ frames = 0
        /\ passes = 0
        /\ last_step_time = preLast

C8_Witness ==
    /\ Returned("move_one")
    /\ n >= preN
    /\ preN >= 1
    /\ preSteps # 0
    /\ \E i \in DOMAIN pre : pre[i] # 0

\* C9: when setStepperNum(n) fails it returns false and the motor count and
\* every position counter are as before the call.
C9_ResizeFailKeepsState ==
    (Returned("resize") /\ ~ret) =>
        /\ nSteppers = preN
        /\ getStepperNum = preN
        /\ step_table = pre

C9_Witness ==
    /\ Returned("resize")
    /\ ~ret
    /\ n # preN
    /\ n >= 1
    /\ \E i \in DOMAIN pre : pre[i] # 0

\* C10: when setStepperNum(n) succeeds it returns true, getStepperNum() is n
\* and there are n position counters, all 0.
C10_ResizeOkZeroes ==
    (Returned("resize") /\ ret) =>
        /\ getStepperNum = n
        /\ DOMAIN step_table = 0..(n - 1)
        /\ \A i \in DOMAIN step_table : step_table[i] = 0

C10_Witness ==
    /\ Returned("resize")
    /\ ret
    /\ n >= 1
    /\ \A i \in DOMAIN pre : pre[i] # 0
    /\ preN >= 1

\* In setStepperStep(step_list) and home() the passes and the frames
\* alternate: a pass is followed by one frame before the next pass.
PassThenFrame ==
    op \in {"move_many", "home"} =>
        /\ InStep => passes = frames + 1
        /\ ~InStep => passes = frames

\* A pass moves every counter by at most 1; nothing else in the call moves one.
PassMovesOne ==
    op \in {"move_many", "home"} =>
        /\ \A i \in DOMAIN step_table :
               /\ i \in DOMAIN step_table'
               /\ Abs(step_table'[i] - step_table[i]) <= 1
        /\ pc \in {"many", "home"} => pc' \in {"gate", "done"}
        /\ pc \notin {"many", "home"} => step_table' = step_table

\* C17: during setStepperStep(step_list) and home(), between two consecutive
\* frames each counter changes by at most 1, and every pass over the motors is
\* followed by exactly one frame before the next pass begins.
C17_OneStepPerFrame == []PassThenFrame /\ [][PassMovesOne]_vars

C17_Witness ==
    /\ op = "move_many"
    /\ pc = "many"
    /\ frames = 2
    /\ \E i, j \in DOMAIN step_table :
           /\ i # j
           /\ Abs(step_table[i] - pre[i]) = 2
           /\ Abs(step_table[j] - pre[j]) = 1

\* C18 as stated: after setStepperStep(D) returns, the caller's list holds
\* the values it held before the call.
C18_ListPreserved ==
    Returned("move_many") => step_list = preList

\* C18 as amended: setStepperStep(D) counts the caller's list down in place;
\* all through the call and at its return, entry i below min(len(D), N) holds
\* D[i] less the steps motor i has been moved, never further from 0 than
\* D[i], and every other entry holds D[i].
C18_ListCountsDown ==
    op = "move_many" =>
        /\ DOMAIN step_list = DOMAIN preList
        /\ length = Min(arrayLen(preList), preN)
        /\ \A i \in DOMAIN step_list :
               IF i < length
               THEN /\ step_list[i] + (step_table[i] - pre[i]) = preList[i]
                    /\ Abs(step_list[i]) <= Abs(preList[i])
               ELSE step_list[i] = preList[i]

C18_Witness ==
    /\ Returned("move_many")
    /\ arrayLen(preList) = 2
    /\ preList[0] < 0
    /\ preList[1] > 1
    /\ step_list[0] = 0
    /\ step_list[1] = 0

\* With every counter at 0 and at least one motor, home() makes one pass that
\* moves nothing and returns after the one frame that pass sends; the frame
\* reads the counter of every motor.
HomeAtZero ==
    (op = "home" /\ preN >= 1 /\ \A i \in DOMAIN pre : pre[i] = 0) =>
        /\ step_table = pre
        /\ passes <= 1
        /\ frames <= 1
        /\ pc = "done" =>
               /\ passes = 1
               /\ frames = 1
               /\ \A i \in 0..(preN - 1) :
                      \E k \in DOMAIN shifted : shifted[k] = i

\* C19: when every counter is 0 and N >= 1, home() does not spin: it returns
\* after exactly one pass and exactly one frame, which covers all motors, and
\* no counter has changed.
C19_HomeAtZeroOnePass ==
    /\ []HomeAtZero
    /\ (op = "home" /\ pc = "home") ~> Returned("home")

C19_Witness ==
    /\ Returned("home")
    /\ preN = 2
    /\ \A i \in DOMAIN pre : pre[i] = 0
    /\ frames = 1
    /\ commanded > 0

\* C20: every read of step_table made while a frame is sent uses an index in
\* 0..nSteppers-1.
C20_ReadsInRange ==
    \A k \in DOMAIN shifted : shifted[k] \in 0..(nSteppers - 1)

\* C11: enableSteppers(), disableSteppers() and clearSteppers() return false
\* and write no pin when the driver was constructed without the line; when
\* it was constructed with the line they return true and drive it (enable:
\* low, disable: high, clear: low then high).
C11_AuxLines ==
    (pc = "done" /\ op \in {"enable", "disable", "clear"}) =>
        IF hasAux
        THEN /\ ret = TRUE
             /\ op = "enable" => writes = << << enablePin, "LOW" >> >>
             /\ op = "disable" => writes = << << enablePin, "HIGH" >> >>
             /\ op = "clear" =>
                    writes = << << clearPin, "LOW" >>, << clearPin, "HIGH" >> >>
        ELSE /\ ret = FALSE
             /\ writes = << >>

\* C13: setSpeedRevPerMin(rpm), rpm > 0, sets step_delay to 60000000 / nSteps
\* / rpm, each division truncating: there is a q with
\* q * nSteps <= 60000000 < (q + 1) * nSteps and
\* step_delay * rpm <= q < (step_delay + 1) * rpm.  nSteps = 200 and rpm = 60
\* give 5000.
C13_SpeedDelay ==
    (Returned("speed") /\ n > 0) =>
        /\ \E q \in (step_delay * n)..(step_delay * n + n - 1) :
               /\ q * nSteps <= 60000000
               /\ 60000000 < (q + 1) * nSteps
        /\ (nSteps = 200 /\ n = 60) => step_delay = 5000

C13_Witness ==
    /\ Returned("speed")
    /\ n = 7
    /\ nSteps # 48
    /\ step_delay > 0
    /\ step_delay * n * nSteps < 60000000

\* C12: in every frame, for every motor whose pattern is shifted out, the
\* index into the Phase Table computed from its counter lies in
\* 0..driver_mode-1, negative counters included.
C12_IndexInTable ==
    \A k \in DOMAIN cmdIdx : cmdIdx[k] \in 0..(driver_mode - 1)

\* phase(k) of the Phase Table: periodic over all integers
phase(k) == cmd_list[k % driver_mode]

\* the patterns the outputs should show: phase(position[i]) on the wire
Aligned(out) ==
    \A i \in 0..(nSteppers - 1) :
        out[i] = LowBits(phase(step_table[i]), step_line_num)

\* C14: after the latch pulse of every frame sent during move_one,
\* move_many or home, the latched output of stage i is phase(position[i])
\* for every motor i, also when the frame carried a leading subset only.
\* (Between a frame and the next pass, and at the return, the counters are
\* those the frame was computed from.)
C14_LatchedMatches ==
    (/\ op \in {"move_one", "move_many", "home"}
     /\ frames > 0
     /\ pc \in {"one", "many", "home", "done"}) => Aligned(latched)

\* every pattern of the frame has been shifted out
AllShifted == patI > FrameLength(stepArg, nSteppers)

\* where the latch line stands at each point of a frame
LatchOrder ==
    /\ pc \in {"load", "bit", "data", "clkhigh"} =>
           latch = "LOW" /\ latchRises = 0
    /\ pc = "latchend" => latch = "HIGH" /\ latchRises = 1
    /\ pc = "done" => latch = "LOW" /\ latchRises = 1 /\ AllShifted

\* the clock line moves only under a low latch, and the latch line leaves
\* low only after the last pattern
LatchSteps ==
    /\ clock' # clock => latch = "LOW" /\ latch' = "LOW"
    /\ (latch = "LOW" /\ latch' # latch) => AllShifted

\* C15: within a frame the latch line is driven low before the first bit,
\* stays low while every pattern is shifted, then goes high exactly once and
\* back low after the last bit; no clock edge is produced under a high
\* latch, and the latch is low when the frame ends.
C15_LatchOrder == []LatchOrder /\ [][LatchSteps]_vars

C15_Witness ==
    /\ op = "step"
    /\ pc = "done"
    /\ latchRises = 1
    /\ Len(shifted) >= 2
    /\ clock = "HIGH"

\* the number whose bit k is set exactly when data was high at rising edge k
RECURSIVE Weigh(_, _)
Weigh(e, k) ==
    IF k = 0 THEN 0
    ELSE Weigh(e, k - 1) + (IF e[k] = "HIGH" THEN 2 ^ (k - 1) ELSE 0)

\* while a pattern is serialized: one rising edge per bit done, carrying the
\* pattern's bits from the least significant up
EdgesCarryBits ==
    pc \in {"bit", "data", "clkhigh"} =>
        /\ Len(edges) = bitI
        /\ bitI <= step_line_num
        /\ Weigh(edges, Len(edges)) = cmd % (2 ^ bitI)

\* fastShiftOut returns after exactly step_line_num rising edges
EdgesPerPattern ==
    (pc = "bit" /\ pc' = "load") => Len(edges) = step_line_num

\* the data line changes under a low clock only
DataUnderLowClock == data' # data => clock = "LOW" /\ clock' = "LOW"

\* C16: serializing one pattern of bit_count bits produces exactly bit_count
\* rising clock edges, the data line holds bit k at the k-th of them (least
\* significant first), and the data line only changes while the clock line
\* is low.
C16_BitsLsbFirst ==
    /\ []EdgesCarryBits
    /\ [][EdgesPerPattern /\ DataUnderLowClock]_vars

C16_Witness ==
    /\ op = "step"
    /\ pc = "bit"
    /\ bitI = step_line_num
    /\ step_line_num >= 3
    /\ cmd = 2
    /\ edges[1] = "LOW"
    /\ edges[2] = "HIGH"
    /\ edges[3] = "LOW"
====
